---- MODULE Spec2Model ----
(***************************************************************************)
(* NAS_watcher.ino: a serial line protocol drives an RGB LED and a 4-digit *)
(* TM1637 display.  The model follows loop() byte by byte.  Characters are *)
(* one-character strings; an Arduino String is a sequence of characters.   *)
(*                                                                         *)
(* A loop() iteration that finds Serial.available() == 0 only sleeps 10 ms *)
(* and changes nothing: it is the stuttering step of the specification.    *)
(* delay(1500) in the middle of the LevelUpdate branch is the one place    *)
(* where the handler is suspended while the host keeps transmitting, so    *)
(* the branch is split there: ReadNewlineLevel runs lines 132-150 and      *)
(* DwellEnd runs lines 154-165.                                            *)
(***************************************************************************)
EXTENDS Integers, Sequences, FiniteSets, TLC

VARIABLES
    hostCur,            \* bytes of the line the host is transmitting, not yet on the wire
    nSent,              \* number of lines the host has started
    rxBuf,              \* the transport's receive buffer (Serial), oldest byte first
    dropped,            \* bytes the transport discarded because rxBuf was full
    serialData,         \* line 28
    currentAlertLevel,  \* line 27
    currentDateMMDD,    \* line 29
    led,                \* last <<r, g, b>> written by setLedColor
    disp,               \* the four glyphs on the TM1637
    pc,                 \* "loop": between iterations;  "dwell": inside delay(1500)
    diag,               \* number of diagnostic lines printed (line 162)
    dateAtClear,        \* history: <<d>> when an OFF was handled with date d stored and
                        \* no date-bearing update has been handled since, else <<>>
    lineBytes           \* history: the bytes Serial.read() returned since the last newline

vars == <<hostCur, nSent, rxBuf, dropped, serialData, currentAlertLevel,
          currentDateMMDD, led, disp, pc, diag, dateAtClear, lineBytes>>

(***************************************************************************)
(* Program constants                                                       *)
(***************************************************************************)
LEVEL_NORMAL == 1
LEVEL_NOTICE == 2
LEVEL_ALERT == 3
LEVEL_OFF == 999
MAX_BRIGHTNESS == 8
\* width of int on the board the sketch is written for (Arduino UNO, AVR)
IntBits == 16

(***************************************************************************)
(* Bounds of the model                                                     *)
(***************************************************************************)
\* lines the host sends in one run
MaxLines == 3
\* capacity of the transport's receive buffer (64 on the board)
RxCap == 8
\* bytes the transport may discard in one run
MaxDropped == 1
\* lines the host sends in one run of the parsing specification
ParseMaxLines == 1
\* repeated updates the host sends in one run of the repetition specification
TwiceMaxPairs == 2
\* lines the host sends in one run of the colour specification
ColourMaxLines == 2
\* lines the host sends in one run of the line-shape specification
ShapeMaxLines == 2

NL == "\n"
CR == "\r"
Digits == <<"0", "1", "2", "3", "4", "5", "6", "7", "8", "9">>
Blank == <<" ", " ", " ", " ">>

(***************************************************************************)
(* Arduino String helpers                                                  *)
(***************************************************************************)
IsDigit(c) == \E i \in 1..10 : Digits[i] = c

DigitVal(c) == (CHOOSE i \in 1..10 : Digits[i] = c) - 1

\* String::indexOf(ch): 0-based index of the first occurrence, -1 if none
RECURSIVE IndexFrom(_, _, _)
IndexFrom(s, ch, i) ==
    IF i > Len(s) THEN -1
    ELSE IF s[i] = ch THEN i - 1
    ELSE IndexFrom(s, ch, i + 1)

\* a search that reports the last occurrence instead of the first
indexOf_Last(s, ch) ==
    IF \A i \in 1..Len(s) : s[i] # ch THEN -1
    ELSE (CHOOSE i \in 1..Len(s) : s[i] = ch /\ \A j \in (i + 1)..Len(s) : s[j] # ch) - 1

indexOf(s, ch) == IndexFrom(s, ch, 1)

\* String::substring(from, to): characters from..to-1 (0-based), clamped
substring(s, from, to) ==
    LET t == IF to > Len(s) THEN Len(s) ELSE to
    IN  IF from >= t THEN <<>> ELSE SubSeq(s, from + 1, t)

\* String::substring(from): to the end of the string
substringFrom(s, from) == substring(s, from, Len(s))

\* String::startsWith(prefix)
startsWith(s, p) == Len(s) >= Len(p) /\ SubSeq(s, 1, Len(p)) = p

\* value of the leading run of decimal digits of s, acc carried in
RECURSIVE LeadingDigits(_, _)
LeadingDigits(s, acc) ==
    IF s = <<>> \/ ~IsDigit(Head(s)) THEN acc
    ELSE LeadingDigits(Tail(s), acc * 10 + DigitVal(Head(s)))

RECURSIVE SkipSpaces(_)
SkipSpaces(s) == IF s # <<>> /\ Head(s) = " " THEN SkipSpaces(Tail(s)) ELSE s

\* atol(): leading blanks, an optional sign, then digits; 0 when there are none
Atol(s) ==
    LET t == SkipSpaces(s)
    IN  IF t # <<>> /\ Head(t) = "-" THEN 0 - LeadingDigits(Tail(t), 0)
        ELSE IF t # <<>> /\ Head(t) = "+" THEN LeadingDigits(Tail(t), 0)
        ELSE LeadingDigits(t, 0)

\* conversion of the long result to int
WrapInt(n) ==
    LET m == n % (2 ^ IntBits)
    IN  IF m >= 2 ^ (IntBits - 1) THEN m - 2 ^ IntBits ELSE m

\* a conversion that reads the digits and ignores a sign
toInt_Unsigned(s) == WrapInt(LeadingDigits(SkipSpaces(s), 0))

\* a conversion that reports an empty string as -1
toInt_EmptyIsMinusOne(s) == IF s = <<>> THEN -1 ELSE WrapInt(Atol(s))

\* int level = levelString.toInt();
toInt(s) == WrapInt(Atol(s))

(***************************************************************************)
(* Outputs                                                                 *)
(***************************************************************************)
\* a colour table whose NOTICE row has the green channel fully on
updateAlertLed_NoticeYellow(level) ==
    IF level = LEVEL_NORMAL THEN <<0, MAX_BRIGHTNESS, 0>>
    ELSE IF level = LEVEL_NOTICE THEN <<255, 255, 0>>
    ELSE IF level = LEVEL_ALERT THEN <<255, 0, 0>>
    ELSE <<0, 0, 0>>

\* updateAlertLed: the <<r, g, b>> handed to setLedColor
updateAlertLed(level) ==
    IF level = LEVEL_NORMAL THEN <<0, MAX_BRIGHTNESS, 0>>
    ELSE IF level = LEVEL_NOTICE THEN <<255, 100, 0>>
    ELSE IF level = LEVEL_ALERT THEN <<255, 0, 0>>
    ELSE <<0, 0, 0>>

\* display.showNumberDec(level, true, 4, 0): four decimal digits, leading
\* zeros, least significant digit rightmost; a negative number gets its
\* minus sign in the first position left of its digits
RECURSIVE NumGlyphs(_, _, _)
NumGlyphs(num, neg, k) ==
    IF k = 0 THEN <<>>
    ELSE LET signHere == neg /\ num = 0
             g == IF signHere THEN "-" ELSE Digits[(num % 10) + 1]
         IN  Append(NumGlyphs(num \div 10, neg /\ ~signHere, k - 1), g)

showNumberDec(level) ==
    IF level < 0 THEN NumGlyphs(0 - level, TRUE, 4) ELSE NumGlyphs(level, FALSE, 4)

\* encodeDigit(mmdd.substring(i, i+1).toInt()): the glyph of one character
DateGlyph(c) == Digits[(toInt(<<c>>) % 16) + 1]

\* displayDate: what the display shows afterwards, given what it showed before
displayDate(mmdd, before) ==
    IF Len(mmdd) < 4 THEN before
    ELSE [i \in 1..4 |-> DateGlyph(substring(mmdd, i - 1, i)[1])]

(***************************************************************************)
(* Lines the host may send                                                 *)
(***************************************************************************)
Lines ==
    { <<"1", "_", "D", "1", "1", "0", "9">>,
      <<"1", "_", "D", "1", "1", "0">>,
      <<"2", "_">>,
      <<"O", "F", "F", CR>>,
      <<"O", "f", "f">>,
      <<"7", "_", "d", "0", "1", "0", "1">> }

\* decimal text of an integer, as the host prints it
RECURSIVE DecDigits(_)
DecDigits(n) ==
    IF n < 10 THEN <<Digits[n + 1]>>
    ELSE Append(DecDigits(n \div 10), Digits[(n % 10) + 1])

DecStr(n) == IF n < 0 THEN <<"-">> \o DecDigits(0 - n) ELSE DecDigits(n)

\* levels and dates of the well-formed updates of the parsing specification
ParseLevels == {-32769, -32768, -1, 0, 3, 999, 32767, 32768, 40000}
ParseDateUpper == <<"1", "1", "0", "9">>
ParseDateLower == <<"0", "1", "0", "1">>

\* the line "L_D<date>" or "L_d<date>"
UpdateLine(L, d, date) == DecStr(L) \o <<"_", d>> \o date

ParseLines ==
    { UpdateLine(L, "D", ParseDateUpper) : L \in ParseLevels } \cup
    { UpdateLine(L, "d", ParseDateLower) : L \in ParseLevels }

\* the two updates of the rapid-update scenario
RapidLines ==
    { <<"3", "_", "D", "1", "2", "2", "5">>,
      <<"1", "_", "D", "0", "1", "0", "1">> }

\* updates sent twice in a row: each element is the line, a newline, the line
TwiceBase ==
    { <<"1", "_", "D", "1", "1", "0", "9">>,
      <<"1", "_", "D", "1", "1", "0">>,
      <<"2", "_">>,
      <<"7", "_", "d", "0", "1", "0", "1">> }

TwiceLines == { l \o <<NL>> \o l : l \in TwiceBase }

\* level-only updates over the colour table, an OFF and a bare number
ColourLevels == {-1, 0, 1, 2, 3, 4, 999}

ColourLines ==
    { DecStr(L) \o <<"_">> : L \in ColourLevels } \cup
    { <<"o", "f", "f">>, <<"3">> }

\* unusual line shapes: empty, non-numeric and signed level fields, several
\* separators, OFF as a prefix, carriage returns inside and at the end of a line
ShapeLines ==
    { <<"_", "D", "1", "1", "0", "9">>,
      <<"a", "b", "c", "_", "D", "1", "1", "0", "9">>,
      <<"-", "5", "_", "D", "1", "1", "0", "9">>,
      <<"-", "_">>,
      <<" ", "7", "_">>,
      <<"O", "F", "F", "_", "D", "1", "1", "0", "9">>,
      <<"1", "_", "2", "_", "D", "1", "1", "0", "9">>,
      <<"O", "F", "F", "L", "I", "N", "E">>,
      <<"o", CR, "f", "f">>,
      <<"1", CR, "_", "d", "0", "1", "0", "1", CR>>,
      <<"O", "f", "f">> }

(***************************************************************************)
(* Initial state: the globals' initialisers and setup()                    *)
(***************************************************************************)
Init ==
    /\ hostCur = <<>>
    /\ nSent = 0
    /\ rxBuf = <<>>
    /\ dropped = 0
    /\ serialData = <<>>
    /\ currentAlertLevel = LEVEL_OFF
    /\ currentDateMMDD = <<"0", "0", "0", "0">>
    /\ led = <<0, 0, 0>>
    /\ disp = Blank
    /\ pc = "loop"
    /\ diag = 0
    /\ dateAtClear = <<>>
    /\ lineBytes = <<>>

(***************************************************************************)
(* The host and the transport                                              *)
(***************************************************************************)
\* the host starts one more line of the pool, newline-terminated
HostStart(pool, max) ==
    /\ nSent < max
    /\ hostCur = <<>>
    /\ \E l \in pool : hostCur' = Append(l, NL)
    /\ nSent' = nSent + 1
    /\ UNCHANGED <<rxBuf, dropped, serialData, currentAlertLevel,
                   currentDateMMDD, led, disp, pc, diag, dateAtClear, lineBytes>>

\* one byte arrives: the receive interrupt stores it, or discards it when the
\* buffer is full; this happens whether loop() is reading or inside delay().
\* A run discards at most MaxDropped bytes.
HostSend ==
    /\ hostCur # <<>>
    /\ Len(rxBuf) < RxCap \/ dropped < MaxDropped
    /\ hostCur' = Tail(hostCur)
    /\ IF Len(rxBuf) < RxCap
       THEN rxBuf' = Append(rxBuf, Head(hostCur)) /\ dropped' = dropped
       ELSE rxBuf' = rxBuf /\ dropped' = dropped + 1
    /\ UNCHANGED <<nSent, serialData, currentAlertLevel, currentDateMMDD,
                   led, disp, pc, diag, dateAtClear, lineBytes>>

(***************************************************************************)
(* loop()                                                                  *)
(***************************************************************************)
\* Serial.available() and the byte Serial.read() returns is c
Reads(c) == pc = "loop" /\ rxBuf # <<>> /\ Head(rxBuf) = c

\* the date stored by lines 145-147
HasDateField(dateData) ==
    startsWith(dateData, <<"D">>) \/ startsWith(dateData, <<"d">>)

DateAfter(dateData, old) ==
    IF HasDateField(dateData) THEN substringFrom(dateData, 1) ELSE old

\* newline, line contains '_': lines 132-150, up to the start of delay(1500)
ReadNewlineLevel ==
    /\ Reads(NL)
    /\ indexOf(serialData, "_") # -1
    /\ LET separatorIndex == indexOf(serialData, "_")
           levelString == substring(serialData, 0, separatorIndex)
           dateData == substringFrom(serialData, separatorIndex + 1)
           level == toInt(levelString)
       IN  /\ currentAlertLevel' = level
           /\ led' = updateAlertLed(level)
           /\ currentDateMMDD' = DateAfter(dateData, currentDateMMDD)
           /\ disp' = showNumberDec(level)
           /\ dateAtClear' = IF HasDateField(dateData) THEN <<>> ELSE dateAtClear
    /\ rxBuf' = Tail(rxBuf)
    /\ lineBytes' = <<>>
    /\ pc' = "dwell"
    /\ UNCHANGED <<hostCur, nSent, dropped, serialData, diag>>

\* delay(1500) returns: lines 154 and 165
DwellEnd ==
    /\ pc = "dwell"
    /\ disp' = displayDate(currentDateMMDD, disp)
    /\ serialData' = <<>>
    /\ pc' = "loop"
    /\ UNCHANGED <<hostCur, nSent, rxBuf, dropped, currentAlertLevel,
                   currentDateMMDD, led, diag, dateAtClear, lineBytes>>

\* a prefix test that ignores the case of the letters
IsOff_AnyCase(s) ==
    /\ Len(s) >= 3
    /\ s[1] \in {"O", "o"}
    /\ s[2] \in {"F", "f"}
    /\ s[3] \in {"F", "f"}

\* is the line an OFF command (line 156)
IsOff(s) == startsWith(s, <<"O", "F", "F">>) \/ startsWith(s, <<"o", "f", "f">>)

\* an OFF branch that switches the LED off and forgets display.clear()
ReadNewlineOff_KeepsDisplay ==
    /\ Reads(NL)
    /\ indexOf(serialData, "_") = -1
    /\ IsOff(serialData)
    /\ led' = updateAlertLed(LEVEL_OFF)
    /\ serialData' = <<>>
    /\ rxBuf' = Tail(rxBuf)
    /\ dateAtClear' = <<currentDateMMDD>>
    /\ lineBytes' = <<>>
    /\ UNCHANGED <<hostCur, nSent, dropped, currentAlertLevel,
                   currentDateMMDD, disp, pc, diag>>

\* newline, no '_', OFF or off: lines 156-159 and 165
ReadNewlineOff ==
    /\ Reads(NL)
    /\ indexOf(serialData, "_") = -1
    /\ IsOff(serialData)
    /\ disp' = Blank
    /\ led' = updateAlertLed(LEVEL_OFF)
    /\ serialData' = <<>>
    /\ rxBuf' = Tail(rxBuf)
    /\ dateAtClear' = <<currentDateMMDD>>
    /\ lineBytes' = <<>>
    /\ UNCHANGED <<hostCur, nSent, dropped, currentAlertLevel,
                   currentDateMMDD, pc, diag>>

\* newline, anything else: lines 160-165
\* an else branch that also renders the stored date
ReadNewlineOther_ShowsDate ==
    /\ Reads(NL)
    /\ indexOf(serialData, "_") = -1
    /\ ~IsOff(serialData)
    /\ diag' = diag + 1
    /\ disp' = displayDate(currentDateMMDD, disp)
    /\ serialData' = <<>>
    /\ rxBuf' = Tail(rxBuf)
    /\ lineBytes' = <<>>
    /\ UNCHANGED <<hostCur, nSent, dropped, currentAlertLevel,
                   currentDateMMDD, led, pc, dateAtClear>>

ReadNewlineOther ==
    /\ Reads(NL)
    /\ indexOf(serialData, "_") = -1
    /\ ~IsOff(serialData)
    /\ diag' = diag + 1
    /\ serialData' = <<>>
    /\ rxBuf' = Tail(rxBuf)
    /\ lineBytes' = <<>>
    /\ UNCHANGED <<hostCur, nSent, dropped, currentAlertLevel,
                   currentDateMMDD, led, disp, pc, dateAtClear>>

\* a loop() that appends the carriage return like any other byte
ReadCR_Keeps ==
    /\ Reads(CR)
    /\ rxBuf' = Tail(rxBuf)
    /\ serialData' = Append(serialData, CR)
    /\ lineBytes' = Append(lineBytes, CR)
    /\ UNCHANGED <<hostCur, nSent, dropped, currentAlertLevel,
                   currentDateMMDD, led, disp, pc, diag, dateAtClear>>

\* carriage return: read and discarded (line 167)
ReadCR ==
    /\ Reads(CR)
    /\ rxBuf' = Tail(rxBuf)
    /\ lineBytes' = Append(lineBytes, CR)
    /\ UNCHANGED <<hostCur, nSent, dropped, serialData, currentAlertLevel,
                   currentDateMMDD, led, disp, pc, diag, dateAtClear>>

\* any other byte: appended to the buffer (line 169)
\* a read that also happens while delay(1500) runs
ReadChar_AnyTime ==
    /\ rxBuf # <<>>
    /\ Head(rxBuf) # NL
    /\ Head(rxBuf) # CR
    /\ serialData' = Append(serialData, Head(rxBuf))
    /\ lineBytes' = Append(lineBytes, Head(rxBuf))
    /\ rxBuf' = Tail(rxBuf)
    /\ UNCHANGED <<hostCur, nSent, dropped, currentAlertLevel,
                   currentDateMMDD, led, disp, pc, diag, dateAtClear>>

ReadChar ==
    /\ pc = "loop"
    /\ rxBuf # <<>>
    /\ Head(rxBuf) # NL
    /\ Head(rxBuf) # CR
    /\ serialData' = Append(serialData, Head(rxBuf))
    /\ lineBytes' = Append(lineBytes, Head(rxBuf))
    /\ rxBuf' = Tail(rxBuf)
    /\ UNCHANGED <<hostCur, nSent, dropped, currentAlertLevel,
                   currentDateMMDD, led, disp, pc, diag, dateAtClear>>

Device ==
    \/ ReadNewlineLevel
    \/ DwellEnd
    \/ ReadNewlineOff
    \/ ReadNewlineOther
    \/ ReadCR
    \/ ReadChar

Next ==
    \/ HostStart(Lines, MaxLines)
    \/ HostSend
    \/ Device

Spec == Init /\ [][Next]_vars

\* the same device with a host that sends only the rapid-update lines
NextRapid ==
    \/ HostStart(RapidLines, MaxLines)
    \/ HostSend
    \/ ReadNewlineLevel
    \/ DwellEnd
    \/ ReadChar

SpecRapid == Init /\ [][NextRapid]_vars

\* the same device with a host that sends well-formed updates over a range of levels
NextParse ==
    \/ HostStart(ParseLines, ParseMaxLines)
    \/ HostSend
    \/ ReadNewlineLevel
    \/ DwellEnd
    \/ ReadChar

SpecParse == Init /\ [][NextParse]_vars

\* the same device with a host that sends every update twice in a row
NextTwice ==
    \/ HostStart(TwiceLines, TwiceMaxPairs)
    \/ HostSend
    \/ ReadNewlineLevel
    \/ DwellEnd
    \/ ReadChar

SpecTwice == Init /\ [][NextTwice]_vars

\* the same device with a host that sends level-only updates of every colour
NextColour ==
    \/ HostStart(ColourLines, ColourMaxLines)
    \/ HostSend
    \/ ReadNewlineLevel
    \/ DwellEnd
    \/ ReadNewlineOff
    \/ ReadNewlineOther
    \/ ReadChar

SpecColour == Init /\ [][NextColour]_vars

\* the same device with a host that sends the unusual line shapes
NextShapes ==
    \/ HostStart(ShapeLines, ShapeMaxLines)
    \/ HostSend
    \/ Device

SpecShapes == Init /\ [][NextShapes]_vars

(***************************************************************************)
(* Vocabulary of the properties.  These classify a line by its shape, as   *)
(* the protocol describes it, without using the parser's own definitions.  *)
(***************************************************************************)
\* the next step of loop() consumes the newline that ends the line in serialData
Dispatching == pc = "loop" /\ rxBuf # <<>> /\ Head(rxBuf) = NL

\* the step is that step of loop(): the newline leaves the receive buffer
Dispatch == Dispatching /\ rxBuf' = Tail(rxBuf)

HasSep(s) == \E i \in 1..Len(s) : s[i] = "_"

HasPrefix(s, p) == Len(s) >= Len(p) /\ \A i \in 1..Len(p) : s[i] = p[i]

ClearLine(s) == ~HasSep(s) /\ (HasPrefix(s, <<"O", "F", "F">>) \/ HasPrefix(s, <<"o", "f", "f">>))

UnrecognizedLine(s) ==
    ~HasSep(s) /\ ~HasPrefix(s, <<"O", "F", "F">>) /\ ~HasPrefix(s, <<"o", "f", "f">>)

\* s is "L_D<x>" or "L_d<x>" with x of length n
DatedLine(s, L, n) ==
    /\ Len(s) = Len(DecStr(L)) + 2 + n
    /\ HasPrefix(s, DecStr(L) \o <<"_">>)
    /\ s[Len(DecStr(L)) + 2] \in {"D", "d"}

\* the part of a dated line after "L_D"
DatePart(s, L) == SubSeq(s, Len(DecStr(L)) + 3, Len(s))

\* n as four decimal digits with leading zeros
ZeroPadded(n) == [i \in 1..4 |-> Digits[((n \div (10 ^ (4 - i))) % 10) + 1]]

LedOff == <<0, 0, 0>>
Cleared == led = LedOff /\ disp = Blank

\* levels the properties quantify over
SmallLevels == {0, 1, 2, 3, 999}
InIntRange(L) == -(2 ^ (IntBits - 1)) <= L /\ L < 2 ^ (IntBits - 1)

(***************************************************************************)
(* C1.  A line "L_D<x>" or "L_d<x>" with fewer than four characters in x   *)
(* sets currentLevel to L and leaves currentDate as it was.                *)
(* The sketch stores x whatever its length (line 146); only displayDate    *)
(* looks at the length.                                                    *)
(***************************************************************************)
C1_ShortDateRejected ==
    [][\A L \in SmallLevels : \A n \in 0..3 :
          (Dispatch /\ DatedLine(serialData, L, n))
              => (currentAlertLevel' = L /\ currentDateMMDD' = currentDateMMDD)]_vars

(***************************************************************************)
(* C2.  "3_D1225" then "1_D0101": when the second update has arrived       *)
(* before the dwell of the first has ended, the display goes from 0003 to  *)
(* 0001 and the first date 1225 is never rendered in between.              *)
(* In the sketch the dwell is delay(1500): the second line waits in the    *)
(* receive buffer and the dwell ends by rendering 1225.                    *)
(***************************************************************************)
C2_RapidUpdateOverrides ==
    [][(/\ pc = "dwell"
        /\ disp = <<"0", "0", "0", "3">>
        /\ rxBuf = <<"1", "_", "D", "0", "1", "0", "1", NL>>)
          => disp' \in {<<"0", "0", "0", "3">>, <<"0", "0", "0", "1">>}]_vars

(***************************************************************************)
(* C3.  No byte sent by the host is lost across the transient phase: no   *)
(* step taken while the device is in the dwell drops a byte, although the  *)
(* receive buffer is bounded.                                              *)
(* The sketch does not read during delay(1500); once the buffer is full    *)
(* the transport discards what arrives.                                    *)
(***************************************************************************)
C3_NoInputLost == [][pc = "dwell" => dropped' = dropped]_vars

(***************************************************************************)
(* C4.  During the dwell the display shows the level as four zero-padded   *)
(* digits, and when the dwell ends the display shows the four digits of    *)
(* currentDate, whatever lines were received before.                       *)
(***************************************************************************)
C4_DwellThenRevert ==
    [][/\ (pc' = "dwell" /\ currentAlertLevel' \in 0..9999)
            => disp' = ZeroPadded(currentAlertLevel')
       /\ (pc = "dwell" /\ pc' = "loop") => disp' = currentDateMMDD']_vars

(***************************************************************************)
(* C5.  currentDate always has exactly four characters.                    *)
(***************************************************************************)
C5_DateHasFourChars == Len(currentDateMMDD) = 4

(***************************************************************************)
(* C6.  An OFF leaves currentDate unchanged, and once the dwell of a later *)
(* update without a date field has ended, the display shows the date that  *)
(* was stored when the OFF was handled.  Stated for runs in which the      *)
(* transport has lost nothing.                                             *)
(***************************************************************************)
C6_DateRetainedAcrossClear ==
    (dropped = 0 /\ dateAtClear # <<>>) =>
        /\ currentDateMMDD = dateAtClear[1]
        /\ (pc = "loop" /\ disp # Blank) => disp = dateAtClear[1]

(***************************************************************************)
(* C7.  Handling an OFF leaves the LED at (0,0,0) and the display blank,   *)
(* and both stay so in every step that is not the handling of a line       *)
(* containing '_': no dwell expiry re-renders the date after the clear.    *)
(***************************************************************************)
C7_ClearWins ==
    [][/\ (Dispatch /\ ClearLine(serialData)) => Cleared'
       /\ (Cleared /\ ~(Dispatch /\ HasSep(serialData))) => Cleared']_vars

\* an OFF was handled after an update had lit the LED and filled the display
C7_Witness ==
    /\ Cleared
    /\ currentAlertLevel = 1
    /\ currentDateMMDD = <<"1", "1", "0", "9">>
    /\ diag > 0
    /\ pc = "loop"

(***************************************************************************)
(* C8.  Handling an OFF sets currentLevel to LEVEL_OFF.                    *)
(* The sketch calls updateAlertLed(LEVEL_OFF) and never assigns            *)
(* currentAlertLevel in that branch (lines 156-159).                       *)
(***************************************************************************)
C8_ClearStoresOff ==
    [][(Dispatch /\ ClearLine(serialData)) => currentAlertLevel' = LEVEL_OFF]_vars

(***************************************************************************)
(* C9.  Handling a line with no '_' that does not start with OFF or off    *)
(* leaves level, date, LED, display and scheduler state unchanged, prints  *)
(* one diagnostic line and empties the line buffer.                        *)
(***************************************************************************)
C9_UnrecognizedChangesNothing ==
    [][(Dispatch /\ UnrecognizedLine(serialData))
          => /\ UNCHANGED <<currentAlertLevel, currentDateMMDD, led, disp, pc>>
             /\ diag' = diag + 1
             /\ serialData' = <<>>]_vars

\* an unrecognized line was handled while the LED was lit and the date shown
C9_Witness ==
    /\ diag > 0
    /\ led = <<0, MAX_BRIGHTNESS, 0>>
    /\ disp = <<"1", "1", "0", "9">>
    /\ serialData = <<>>
    /\ rxBuf = <<>>
    /\ hostCur = <<>>
    /\ nSent = 2

SecondCopy == dropped = 0 /\ Tail(rxBuf) \o hostCur = <<>>

C11_RepeatKeepsState ==
    (Dispatch /\ HasSep(serialData) /\ SecondCopy)
        => /\ currentAlertLevel' = currentAlertLevel
           /\ currentDateMMDD' = currentDateMMDD
           /\ led' = led
           /\ pc' = "dwell"
           /\ currentAlertLevel' \in 0..9999 => disp' = ZeroPadded(currentAlertLevel')

C11_RepeatReverts ==
    (pc = "dwell" /\ pc' = "loop" /\ dropped = 0 /\ rxBuf \o hostCur = <<>>)
        => disp' = currentDateMMDD'

C11_Idempotent == [][C11_RepeatKeepsState /\ C11_RepeatReverts]_vars

\* the part of C11 about the stored state, the LED and the fresh dwell alone
C11_IdempotentState == [][C11_RepeatKeepsState]_vars

(***************************************************************************)
(* C12.  Every LevelUpdate and every OFF sets the LED, to the table value  *)
(* of the level: 1 -> (0, MAX_BRIGHTNESS, 0), 2 -> (255, 100, 0),          *)
(* 3 -> (255, 0, 0), 999 and every other integer -> (0, 0, 0); an          *)
(* unrecognized line does not set the LED.                                 *)
(***************************************************************************)
ColourTable(L) ==
    CASE L = 1 -> <<0, MAX_BRIGHTNESS, 0>>
      [] L = 2 -> <<255, 100, 0>>
      [] L = 3 -> <<255, 0, 0>>
      [] OTHER -> <<0, 0, 0>>

C12_ColourMapping ==
    [][/\ \A L \in ColourLevels :
            (Dispatch /\ serialData = DecStr(L) \o <<"_">>) => led' = ColourTable(L)
       /\ (Dispatch /\ HasSep(serialData)) => led' = ColourTable(currentAlertLevel')
       /\ (Dispatch /\ ClearLine(serialData)) => led' = LedOff
       /\ (Dispatch /\ UnrecognizedLine(serialData)) => led' = led]_vars

\* the update "2_" and the bare line "3" have both been handled; the LED is orange
C12_Witness ==
    /\ led = <<255, 100, 0>>
    /\ currentAlertLevel = 2
    /\ diag = 1
    /\ nSent = 2
    /\ pc = "loop"
    /\ rxBuf \o hostCur = <<>>

(***************************************************************************)
(* C13.  The line handed to the parser is the bytes read since the         *)
(* previous newline with every carriage return removed and the newline     *)
(* excluded; a line is handled exactly when a newline is read; and the     *)
(* buffer is empty once the handling of a line is over, whichever branch   *)
(* it took.                                                                *)
(***************************************************************************)
StripCR(b) == SelectSeq(b, LAMBDA c : c # CR)

\* the step reads a byte that is not a newline
ReadsOther == pc = "loop" /\ rxBuf # <<>> /\ Head(rxBuf) # NL /\ rxBuf' = Tail(rxBuf)

\* the handling of a line ends with the step
HandlingEnds == (Dispatch /\ pc' = "loop") \/ (pc = "dwell" /\ pc' = "loop")

C13_LineAssembly ==
    [][/\ Dispatch => /\ serialData = StripCR(lineBytes)
                      /\ \A i \in 1..Len(serialData) : serialData[i] \notin {NL, CR}
       /\ ReadsOther => UNCHANGED <<currentAlertLevel, currentDateMMDD, led, disp, pc, diag>>
       /\ Dispatch => (pc' = "dwell" \/ led' = LedOff \/ diag' = diag + 1)
       /\ HandlingEnds => serialData' = <<>>]_vars

\* "1\r_d0101\r" has been read and handled as the update 1_d0101
C13_Witness ==
    /\ pc = "dwell"
    /\ serialData = <<"1", "_", "d", "0", "1", "0", "1">>
    /\ currentAlertLevel = 1
    /\ currentDateMMDD = <<"0", "1", "0", "1">>
    /\ dropped = 0

(***************************************************************************)
(* C14.  A line with '_' whose part before the first '_' is empty or does  *)
(* not begin with digits is a LevelUpdate with level 0: currentLevel       *)
(* becomes 0, the LED goes to (0,0,0), the display shows 0000 for the      *)
(* dwell, the date field is handled as for any other LevelUpdate and no    *)
(* diagnostic is printed.                                                  *)
(* As stated it fails for "-5_D1109" (level -5) and " 7_" (level 7):       *)
(* toInt skips blanks and reads a sign.  Amended: the part before the      *)
(* first '_' holds no number, i.e. after leading blanks and one optional   *)
(* sign it is empty or does not begin with a digit.                        *)
(***************************************************************************)
FirstSep(s) == CHOOSE i \in 1..Len(s) : s[i] = "_" /\ \A j \in 1..(i - 1) : s[j] # "_"
LevelField(s) == SubSeq(s, 1, FirstSep(s) - 1)
DateField(s) == SubSeq(s, FirstSep(s) + 1, Len(s))

IsDigitChar(c) == c \in {"0", "1", "2", "3", "4", "5", "6", "7", "8", "9"}

NoLeadingDigit(f) == f = <<>> \/ ~IsDigitChar(f[1])

\* f without its leading blanks
Unblanked(f) ==
    LET k == CHOOSE i \in 1..(Len(f) + 1) :
                 /\ \A j \in 1..(i - 1) : f[j] = " "
                 /\ (i <= Len(f) => f[i] # " ")
    IN  SubSeq(f, k, Len(f))

NoNumber(f) ==
    LET g == Unblanked(f)
        h == IF g # <<>> /\ g[1] \in {"+", "-"} THEN Tail(g) ELSE g
    IN  NoLeadingDigit(h)

\* the date after the step, for the line s: untouched without D or d, replaced
\* by a four-character date that follows D or d
DateHandled(s) ==
    LET d == DateField(s)
    IN  IF d # <<>> /\ d[1] \in {"D", "d"}
        THEN Len(d) = 5 => currentDateMMDD' = Tail(d)
        ELSE currentDateMMDD' = currentDateMMDD

LevelZeroUpdate ==
    /\ currentAlertLevel' = 0
    /\ led' = LedOff
    /\ disp' = <<"0", "0", "0", "0">>
    /\ pc' = "dwell"
    /\ diag' = diag
    /\ DateHandled(serialData)

C14_NoLeadingDigitIsZero ==
    [][(Dispatch /\ HasSep(serialData) /\ NoLeadingDigit(LevelField(serialData)))
          => LevelZeroUpdate]_vars

\* C14 as amended: a level field that holds no number gives level 0
C14_NoNumberIsZero ==
    [][(Dispatch /\ HasSep(serialData) /\ NoNumber(LevelField(serialData)))
          => LevelZeroUpdate]_vars

\* "abc_D1109" has been handled and the LED, lit by "-5_D1109" before, is off
C14_Witness ==
    /\ pc = "dwell"
    /\ serialData = <<"a", "b", "c", "_", "D", "1", "1", "0", "9">>
    /\ currentAlertLevel = 0
    /\ currentDateMMDD = <<"1", "1", "0", "9">>
    /\ disp = <<"0", "0", "0", "0">>
    /\ led = LedOff

(***************************************************************************)
(* C15.  Every dispatched line is handled as exactly one of LevelUpdate,   *)
(* ClearCommand and Unrecognized, chosen by the first test that matches:   *)
(* a line with '_' is a LevelUpdate split at its first '_' ("OFF_D1109"    *)
(* is a LevelUpdate with level 0, not a clear; "1_2_D1109" sets level 1    *)
(* and leaves the date); a line without '_' that starts with "OFF" or      *)
(* "off" is a ClearCommand ("OFFLINE" clears); any other line is           *)
(* Unrecognized.                                                           *)
(***************************************************************************)
\* what each kind of handling does that the other two do not
LevelUpdateStep == pc' = "dwell" /\ diag' = diag
ClearCommandStep == pc' = "loop" /\ diag' = diag /\ led' = LedOff /\ disp' = Blank
UnrecognizedStep == pc' = "loop" /\ diag' = diag + 1

OffWithDate == <<"O", "F", "F", "_", "D", "1", "1", "0", "9">>
TwoSeparators == <<"1", "_", "2", "_", "D", "1", "1", "0", "9">>
Offline == <<"O", "F", "F", "L", "I", "N", "E">>

C15_ParserPrecedence ==
    [][Dispatch =>
          /\ HasSep(serialData) =>
                /\ LevelUpdateStep
                /\ currentAlertLevel' = toInt(LevelField(serialData))
                /\ DateHandled(serialData)
          /\ ClearLine(serialData) => ClearCommandStep
          /\ UnrecognizedLine(serialData) => UnrecognizedStep
          /\ serialData = OffWithDate =>
                /\ currentAlertLevel' = 0
                /\ currentDateMMDD' = <<"1", "1", "0", "9">>
                /\ disp' = <<"0", "0", "0", "0">>
                /\ LevelUpdateStep
          /\ serialData = TwoSeparators =>
                /\ currentAlertLevel' = 1
                /\ currentDateMMDD' = currentDateMMDD
                /\ LevelUpdateStep
          /\ serialData = Offline => ClearCommandStep]_vars

\* "OFF_D1109" stored the date 1109, then "1_2_D1109" set level 1 and left it
C15_Witness ==
    /\ pc = "dwell"
    /\ serialData = TwoSeparators
    /\ currentAlertLevel = 1
    /\ currentDateMMDD = <<"1", "1", "0", "9">>
    /\ led = <<0, MAX_BRIGHTNESS, 0>>
    /\ dropped = 0

(***************************************************************************)
(* C16.  A line with '_' whose part after the first '_' does not start     *)
(* with 'D' or 'd' (an empty part included, as in "2_") updates the level  *)
(* and the LED and leaves the stored date unchanged, and after the dwell   *)
(* the display shows the previously stored date.                           *)
(***************************************************************************)
LevelOnly(s) ==
    /\ HasSep(s)
    /\ LET d == DateField(s) IN d = <<>> \/ d[1] \notin {"D", "d"}

C16_LevelOnlyUpdates ==
    (Dispatch /\ LevelOnly(serialData))
       => /\ currentAlertLevel' = toInt(LevelField(serialData))
          /\ led' = ColourTable(currentAlertLevel')
          /\ currentDateMMDD' = currentDateMMDD
          /\ pc' = "dwell"

\* the dwell of a level-only line ends with the stored date on the display
C16_LevelOnlyShowsDate ==
    (pc = "dwell" /\ pc' = "loop" /\ LevelOnly(serialData) /\ dropped = 0)
       => /\ currentDateMMDD' = currentDateMMDD
          /\ disp' = currentDateMMDD

C16_LevelOnlyKeepsDate == [][C16_LevelOnlyUpdates /\ C16_LevelOnlyShowsDate]_vars

\* the part of C16 about the stored state alone
C16_LevelOnlyKeepsDateState == [][C16_LevelOnlyUpdates]_vars

(***************************************************************************)
(* C17.  In every reachable state in which the LED is not off, each of     *)
(* its colour components is at most MAX_BRIGHTNESS, whatever level was     *)
(* received.                                                               *)
(***************************************************************************)
C17_BrightnessCap ==
    led # LedOff => \A i \in 1..3 : led[i] <= MAX_BRIGHTNESS

(***************************************************************************)
(* C18.  From the start of the device until the first LevelUpdate line is  *)
(* processed, the stored date is "0000", the level is LEVEL_OFF, the LED   *)
(* is (0,0,0) and the display is blank, whatever Unrecognized lines,       *)
(* ClearCommand lines and partial lines are received meanwhile.            *)
(***************************************************************************)
Quiescent ==
    /\ currentDateMMDD = <<"0", "0", "0", "0">>
    /\ currentAlertLevel = LEVEL_OFF
    /\ led = LedOff
    /\ disp = Blank

\* the device starts quiescent, and only handling a LevelUpdate line ends it
C18_InitialQuiescence ==
    Quiescent /\ [][(Quiescent /\ ~(Dispatch /\ HasSep(serialData))) => Quiescent']_vars

\* still quiescent after an Unrecognized line and a ClearCommand line were
\* handled and part of a third line was read
C18_Witness ==
    /\ Quiescent
    /\ diag = 1
    /\ dateAtClear # <<>>
    /\ nSent = 3
    /\ serialData # <<>>
    /\ pc = "loop"

(***************************************************************************)
(* C19.  Each loop iteration consumes at most one byte, always the oldest  *)
(* one, so lines are assembled and dispatched in the order received; the   *)
(* handling of a line (state update, LED, level render, dwell, date        *)
(* render, buffer clear) is complete before any later byte is consumed.    *)
(***************************************************************************)
Consumes == rxBuf # <<>> /\ rxBuf' = Tail(rxBuf)
Arrives == Len(rxBuf') = Len(rxBuf) + 1 /\ SubSeq(rxBuf', 1, Len(rxBuf)) = rxBuf

C19_RunToCompletion ==
    [][/\ rxBuf' = rxBuf \/ Consumes \/ Arrives
       /\ Consumes => pc = "loop"
       /\ (Consumes /\ Head(rxBuf) \notin {NL, CR})
             => serialData' = Append(serialData, Head(rxBuf))
       /\ (Consumes /\ Head(rxBuf) = NL)
             => (pc' = "dwell" /\ serialData' = serialData) \/ serialData' = <<>>
       /\ pc = "dwell"
             => /\ ~Consumes
                /\ UNCHANGED <<currentAlertLevel, currentDateMMDD, led, diag>>
                /\ pc' = "dwell" => UNCHANGED <<disp, serialData>>
                /\ pc' = "loop" => serialData' = <<>>
       /\ (pc = "loop" /\ ~Consumes)
             => UNCHANGED <<serialData, currentAlertLevel, currentDateMMDD,
                            led, disp, pc, diag>>]_vars

\* "1_D1109" is in its dwell while the whole of the next line waits unread
C19_Witness ==
    /\ pc = "dwell"
    /\ serialData = <<"1", "_", "D", "1", "1", "0", "9">>
    /\ rxBuf = <<"2", "_", NL>>
    /\ disp = <<"0", "0", "0", "1">>
    /\ dropped = 0

====
